---- MODULE Spec2Model ----
(***************************************************************************)
(* Model of the typed decoding layer in src/data/shared.rs: the serde      *)
(* derived deserializers of the wire structures and the conversions from   *)
(* wire mirror types (WorkspaceRaw, OptionRaw) to domain types.            *)
(*                                                                         *)
(* A wire payload is a JSON value.  A JSON object is a function from the   *)
(* keys it carries to their values, so a missing key is a key outside     *)
(* DOMAIN.  JSON integers are TLA+ integers, JSON strings are strings.     *)
(* Every operation ends in a result: Ok(value), Err(error) (a value that   *)
(* is returned to the caller) or Panic(message) (the thread unwinds and    *)
(* nothing is returned).                                                   *)
(***************************************************************************)
EXTENDS Integers, Sequences, FiniteSets, TLC

VARIABLES
    op,      \* the operation that ran last
    wire,    \* the wire payload the current decode started from
    input,   \* the argument of the operation that ran last
    output   \* its result

vars == <<op, wire, input, output>>

-----------------------------------------------------------------------------
(* Results *)

Ok(v) == [kind |-> "Ok", val |-> v]
Err(e) == [kind |-> "Err", err |-> e]
Panic(m) == [kind |-> "Panic", msg |-> m]

IsOk(r) == r.kind = "Ok"
IsErr(r) == r.kind = "Err"
IsPanic(r) == r.kind = "Panic"

-----------------------------------------------------------------------------
(* Integer widths of the field types *)

I8Min == -128
I8Max == 127
U8Max == 255

\* Wire integers run over -WireSpan..WireSpan, beyond i8 and u8 on both sides.
WireSpan == 260
WireInts == (0 - WireSpan)..WireSpan

\* DeI8 as a truncating cast (n as i8): out-of-range values wrap around
DeI8Wrapping(n) == Ok(((n + 128) % 256) - 128)

\* serde's integer deserializers: the value when it fits the type, else an error
DeI8(n) == IF n >= I8Min /\ n <= I8Max THEN Ok(n) ELSE Err("invalid value: expected i8")
DeU8(n) == IF n >= 0 /\ n <= U8Max THEN Ok(n) ELSE Err("invalid value: expected u8")

U16Max == 65535
I32Max == 2147483647

\* DeU16 with the value 0 refused
DeU16NonZero(n) == IF n >= 1 /\ n <= U16Max THEN Ok(n) ELSE Err("invalid value: expected u16")

DeU16(n) == IF n >= 0 /\ n <= U16Max THEN Ok(n) ELSE Err("invalid value: expected u16")
\* i32 spans (-I32Max - 1)..I32Max
DeI32(n) == IF n >= (0 - I32Max) - 1 /\ n <= I32Max THEN Ok(n) ELSE Err("invalid value: expected i32")

I16Min == -32768
I16Max == 32767
DeI16(n) == IF n >= I16Min /\ n <= I16Max THEN Ok(n) ELSE Err("invalid value: expected i16")

\* u32 ends at 4294967295, above every integer a payload of the model carries
DeU32(n) == IF n >= 0 THEN Ok(n) ELSE Err("invalid value: expected u32")

\* i64 spans more than every integer a payload of the model carries
DeI64(n) == Ok(n)

\* f64 fields carry whole numbers in the model, read as written
DeF64(x) == Ok(x)

\* f32 fields: the payloads of the model carry only small whole numbers, which
\* f32 represents exactly, so the value read is the value written
DeF32(x) == Ok(x)

\* u8::try_from(i8)
TryIntoU8(n) == IF n >= 0 /\ n <= U8Max THEN Ok(n) ELSE Err("out of range integral type conversion attempted")

-----------------------------------------------------------------------------
(* WorkspaceType, WorkspaceRaw, Workspace *)

Special == [tag |-> "Special"]
Regular(n) == [tag |-> "Regular", n |-> n]

SpecialId == -99

WorkspaceRawFields == {"id", "name", "monitor", "windows", "hasfullscreen"}

\* #[derive(Deserialize)] for WorkspaceRaw: every field is required, id is
\* an i8, windows a u8, the wire key hasfullscreen fills field fullscreen.
DeWorkspaceRaw(w) ==
    IF ~(WorkspaceRawFields \subseteq DOMAIN w) THEN Err("missing field")
    ELSE IF ~IsOk(DeI8(w["id"])) THEN DeI8(w["id"])
    ELSE IF ~IsOk(DeU8(w["windows"])) THEN DeU8(w["windows"])
    ELSE Ok([id |-> DeI8(w["id"]).val,
             name |-> w["name"],
             monitor |-> w["monitor"],
             windows |-> DeU8(w["windows"]).val,
             fullscreen |-> w["hasfullscreen"]])

\* WorkspaceIdFrom with every negative id taken for the special workspace
WorkspaceIdFromAnyNegative(id) ==
    IF id < 0 THEN Ok(Special)
    ELSE IF IsOk(TryIntoU8(id)) THEN Ok(Regular(TryIntoU8(id).val))
    ELSE Panic("Issue with parsing id (i8) as u8")

\* the id match of Workspace::from
WorkspaceIdFrom(id) ==
    IF id = SpecialId THEN Ok(Special)
    ELSE IF id >= 0 THEN
        IF IsOk(TryIntoU8(id)) THEN Ok(Regular(TryIntoU8(id).val))
        ELSE Panic("Issue with parsing id (i8) as u8")
    ELSE Panic("Unrecognised id")

\* WorkspaceFrom with the two string fields crossed over
WorkspaceFromCrossed(raw) ==
    IF ~IsOk(WorkspaceIdFrom(raw.id)) THEN WorkspaceIdFrom(raw.id)
    ELSE Ok([id |-> WorkspaceIdFrom(raw.id).val,
             name |-> raw.monitor,
             monitor |-> raw.name,
             windows |-> raw.windows,
             fullscreen |-> raw.fullscreen])

\* impl From<WorkspaceRaw> for Workspace
WorkspaceFrom(raw) ==
    IF ~IsOk(WorkspaceIdFrom(raw.id)) THEN WorkspaceIdFrom(raw.id)
    ELSE Ok([id |-> WorkspaceIdFrom(raw.id).val,
             name |-> raw.name,
             monitor |-> raw.monitor,
             windows |-> raw.windows,
             fullscreen |-> raw.fullscreen])

-----------------------------------------------------------------------------
(* Transforms: #[repr(u8)] enum with serde_repr's derives *)

\* the variant with a given discriminant, as the enum declares them
TransformsVariant(d) ==
    CASE d = 0 -> "Normal"
      [] d = 1 -> "Normal90"
      [] d = 2 -> "Normal180"
      [] d = 3 -> "Normal270"
      [] d = 4 -> "Flipped"
      [] d = 5 -> "Flipped90"
      [] d = 6 -> "Flipped180"
      [] d = 7 -> "Flipped270"

\* DeTransforms with the discriminants of the flipped variants shifted by one
DeTransformsShifted(n) ==
    IF ~IsOk(DeU8(n)) THEN DeU8(n)
    ELSE IF n <= 3 THEN Ok(TransformsVariant(n))
    ELSE IF n <= 6 THEN Ok(TransformsVariant(n + 1))
    ELSE Err("invalid value: unknown discriminant")

\* Deserialize_repr: read a u8, then match it against the discriminants
DeTransforms(n) ==
    IF ~IsOk(DeU8(n)) THEN DeU8(n)
    ELSE IF n <= 7 THEN Ok(TransformsVariant(n))
    ELSE Err("invalid value: unknown discriminant")

\* Serialize_repr: the variant cast to u8
SerTransforms(t) ==
    CASE t = "Normal" -> 0
      [] t = "Normal90" -> 1
      [] t = "Normal180" -> 2
      [] t = "Normal270" -> 3
      [] t = "Flipped" -> 4
      [] t = "Flipped90" -> 5
      [] t = "Flipped180" -> 6
      [] t = "Flipped270" -> 7

-----------------------------------------------------------------------------
(* WorkspaceBasic and Monitor *)

\* de_work_id of crate::shared, the coercion of a wire id to a WorkspaceType
DecodeWorkspaceIdentity(n) ==
    IF n = SpecialId THEN Ok(Special)
    ELSE IF n >= 0 /\ n <= U8Max THEN Ok(Regular(n))
    ELSE Err("UnrepresentableSentinel")

\* #[derive(Deserialize)] for WorkspaceBasic
DeWorkspaceBasic(w) ==
    IF ~({"id", "name"} \subseteq DOMAIN w) THEN Err("missing field")
    ELSE IF ~IsOk(DecodeWorkspaceIdentity(w["id"])) THEN DecodeWorkspaceIdentity(w["id"])
    ELSE Ok([id |-> DecodeWorkspaceIdentity(w["id"]).val, name |-> w["name"]])

\* (u8, u8, u8, u8) read from a JSON array
DeReserved(a) ==
    IF Len(a) # 4 THEN Err("invalid length")
    ELSE IF \E i \in 1..4 : ~IsOk(DeU8(a[i])) THEN Err("invalid value: expected u8")
    ELSE Ok(<<a[1], a[2], a[3], a[4]>>)

MonitorFields ==
    {"id", "name", "width", "height", "refreshRate", "x", "y",
     "activeWorkspace", "reserved", "scale", "transform", "focused"}

\* #[derive(Deserialize)] for Monitor: every field is required and is read
\* by the deserializer of its type; nothing else is checked.
DeMonitor(w) ==
    IF ~(MonitorFields \subseteq DOMAIN w) THEN Err("missing field")
    ELSE IF ~IsOk(DeU8(w["id"])) THEN DeU8(w["id"])
    ELSE IF ~IsOk(DeU16(w["width"])) THEN DeU16(w["width"])
    ELSE IF ~IsOk(DeU16(w["height"])) THEN DeU16(w["height"])
    ELSE IF ~IsOk(DeI32(w["x"])) THEN DeI32(w["x"])
    ELSE IF ~IsOk(DeI32(w["y"])) THEN DeI32(w["y"])
    ELSE IF ~IsOk(DeWorkspaceBasic(w["activeWorkspace"])) THEN DeWorkspaceBasic(w["activeWorkspace"])
    ELSE IF ~IsOk(DeReserved(w["reserved"])) THEN DeReserved(w["reserved"])
    ELSE IF ~IsOk(DeTransforms(w["transform"])) THEN DeTransforms(w["transform"])
    ELSE Ok([id |-> DeU8(w["id"]).val,
             name |-> w["name"],
             width |-> DeU16(w["width"]).val,
             height |-> DeU16(w["height"]).val,
             refresh_rate |-> DeF32(w["refreshRate"]).val,
             x |-> DeI32(w["x"]).val,
             y |-> DeI32(w["y"]).val,
             active_workspace |-> DeWorkspaceBasic(w["activeWorkspace"]).val,
             reserved |-> DeReserved(w["reserved"]).val,
             scale |-> DeF32(w["scale"]).val,
             transform |-> DeTransforms(w["transform"]).val,
             focused |-> w["focused"]])

-----------------------------------------------------------------------------
(* Option<T> *)

None == [some |-> FALSE]
Some(v) == [some |-> TRUE, val |-> v]

-----------------------------------------------------------------------------
(* Client and ActiveWindow *)

ClientFields ==
    {"address", "at", "size", "workspace", "floating", "monitor",
     "class", "title", "pid", "xwayland"}

\* the checks of the derived Client deserializer, in field order
ClientError(w) ==
    IF ~(ClientFields \subseteq DOMAIN w) THEN Err("missing field")
    ELSE IF Len(w["at"]) # 2 THEN Err("invalid length")
    ELSE IF ~IsOk(DeI16(w["at"][1])) THEN DeI16(w["at"][1])
    ELSE IF ~IsOk(DeI16(w["at"][2])) THEN DeI16(w["at"][2])
    ELSE IF Len(w["size"]) # 2 THEN Err("invalid length")
    ELSE IF ~IsOk(DeU16(w["size"][1])) THEN DeU16(w["size"][1])
    ELSE IF ~IsOk(DeU16(w["size"][2])) THEN DeU16(w["size"][2])
    ELSE IF ~IsOk(DeWorkspaceBasic(w["workspace"])) THEN DeWorkspaceBasic(w["workspace"])
    ELSE IF ~IsOk(DeU8(w["monitor"])) THEN DeU8(w["monitor"])
    ELSE IF ~IsOk(DeU32(w["pid"])) THEN DeU32(w["pid"])
    ELSE Ok(<< >>)

\* DeClient with the two string fields class and title crossed over
DeClientCrossed(w) ==
    IF ~IsOk(ClientError(w)) THEN ClientError(w)
    ELSE Ok([address |-> w["address"],
             at |-> <<DeI16(w["at"][1]).val, DeI16(w["at"][2]).val>>,
             size |-> <<DeU16(w["size"][1]).val, DeU16(w["size"][2]).val>>,
             workspace |-> DeWorkspaceBasic(w["workspace"]).val,
             floating |-> w["floating"],
             monitor |-> DeU8(w["monitor"]).val,
             class |-> w["title"],
             title |-> w["class"],
             pid |-> DeU32(w["pid"]).val,
             xwayland |-> w["xwayland"]])

\* #[derive(Deserialize)] for Client
DeClient(w) ==
    IF ~IsOk(ClientError(w)) THEN ClientError(w)
    ELSE Ok([address |-> w["address"],
             at |-> <<DeI16(w["at"][1]).val, DeI16(w["at"][2]).val>>,
             size |-> <<DeU16(w["size"][1]).val, DeU16(w["size"][2]).val>>,
             workspace |-> DeWorkspaceBasic(w["workspace"]).val,
             floating |-> w["floating"],
             monitor |-> DeU8(w["monitor"]).val,
             class |-> w["class"],
             title |-> w["title"],
             pid |-> DeU32(w["pid"]).val,
             xwayland |-> w["xwayland"]])

\* object_empty_as_none of crate::shared, before the object is read as a T:
\* an object without keys stands for no value
DecodeOptionalObject(tree) ==
    IF DOMAIN tree = {} THEN None ELSE Some(tree)

\* ActiveWindow(#[serde(deserialize_with = "object_empty_as_none")] Option<Client>)
DeActiveWindow(w) ==
    IF ~DecodeOptionalObject(w).some THEN Ok(None)
    ELSE IF ~IsOk(DeClient(DecodeOptionalObject(w).val)) THEN DeClient(DecodeOptionalObject(w).val)
    ELSE Ok(Some(DeClient(DecodeOptionalObject(w).val).val))

-----------------------------------------------------------------------------
(* Tablet, TabletType, TabletBelongsTo *)

\* Where a field is an Option<T> the wire may carry null in its place, so the
\* values of such keys are tagged with their JSON type.
JNull == [t |-> "null"]
JStr(x) == [t |-> "str", s |-> x]
JInt(x) == [t |-> "int", n |-> x]
JObj(x) == [t |-> "obj", o |-> x]


\* String
DeString(v) == IF v.t = "str" THEN Ok(v.s) ELSE Err("invalid type: expected a string")

\* #[derive(Deserialize)] for TabletType with its two renamed unit variants
DeTabletType(v) ==
    IF v.t # "str" THEN Err("invalid type: expected a variant name")
    ELSE IF v.s = "tabletPad" THEN Ok("TabletPad")
    ELSE IF v.s = "tabletTool" THEN Ok("TabletTool")
    ELSE Err("unknown variant")

\* #[derive(Deserialize)] for TabletBelongsTo, an externally tagged enum:
\* an object with the one key TabletPad or Address
DeTabletBelongsTo(v) ==
    IF v.t # "obj" THEN Err("invalid type: expected an enum")
    ELSE IF DOMAIN v.o = {"TabletPad"} THEN
        IF v.o["TabletPad"].t # "obj" THEN Err("invalid type: expected a struct variant")
        ELSE IF ~({"name", "address"} \subseteq DOMAIN v.o["TabletPad"].o) THEN Err("missing field")
        ELSE IF ~IsOk(DeString(v.o["TabletPad"].o["name"])) THEN DeString(v.o["TabletPad"].o["name"])
        ELSE IF ~IsOk(DeString(v.o["TabletPad"].o["address"])) THEN DeString(v.o["TabletPad"].o["address"])
        ELSE Ok([tag |-> "TabletPad",
                 name |-> DeString(v.o["TabletPad"].o["name"]).val,
                 address |-> DeString(v.o["TabletPad"].o["address"]).val])
    ELSE IF DOMAIN v.o = {"Address"} THEN
        IF ~IsOk(DeString(v.o["Address"])) THEN DeString(v.o["Address"])
        ELSE Ok([tag |-> "Address", address |-> DeString(v.o["Address"]).val])
    ELSE Err("unknown variant")

\* Option<TabletType>: null is None, anything else is read as a TabletType
DeOptionTabletType(v) ==
    IF v.t = "null" THEN Ok(None)
    ELSE IF IsOk(DeTabletType(v)) THEN Ok(Some(DeTabletType(v).val))
    ELSE DeTabletType(v)

\* Option<TabletBelongsTo>
DeOptionTabletBelongsTo(v) ==
    IF v.t = "null" THEN Ok(None)
    ELSE IF IsOk(DeTabletBelongsTo(v)) THEN Ok(Some(DeTabletBelongsTo(v).val))
    ELSE DeTabletBelongsTo(v)

\* Option<String>
DeOptionString(v) ==
    IF v.t = "null" THEN Ok(None)
    ELSE IF IsOk(DeString(v)) THEN Ok(Some(DeString(v).val))
    ELSE DeString(v)

\* TabletTypeField without the derive's special case for Option fields: an
\* absent key is an error, as it is for any other field
TabletTypeFieldRequired(w) ==
    IF "type" \in DOMAIN w THEN DeOptionTabletType(w["type"]) ELSE Err("missing field")

\* The Option fields of the derived struct: a key that is absent reads as None.
TabletTypeField(w) ==
    IF "type" \in DOMAIN w THEN DeOptionTabletType(w["type"]) ELSE Ok(None)

TabletBelongsToField(w) ==
    IF "belongsTo" \in DOMAIN w THEN DeOptionTabletBelongsTo(w["belongsTo"]) ELSE Ok(None)

TabletNameField(w) ==
    IF "name" \in DOMAIN w THEN DeOptionString(w["name"]) ELSE Ok(None)

\* #[derive(Deserialize)] for Tablet: address is required; the wire keys
\* type and belongsTo fill tablet_type and belongs_to.
DeTablet(w) ==
    IF ~("address" \in DOMAIN w) THEN Err("missing field")
    ELSE IF ~IsOk(DeString(w["address"])) THEN DeString(w["address"])
    ELSE IF ~IsOk(TabletTypeField(w)) THEN TabletTypeField(w)
    ELSE IF ~IsOk(TabletBelongsToField(w)) THEN TabletBelongsToField(w)
    ELSE IF ~IsOk(TabletNameField(w)) THEN TabletNameField(w)
    ELSE Ok([address |-> DeString(w["address"]).val,
             tablet_type |-> TabletTypeField(w).val,
             belongs_to |-> TabletBelongsToField(w).val,
             name |-> TabletNameField(w).val])

-----------------------------------------------------------------------------
(* LayerClient, LayerDisplay, Layers *)

LayerClientFields == {"address", "x", "y", "w", "h", "namespace"}

\* #[derive(Deserialize)] for LayerClient
DeLayerClient(c) ==
    IF ~(LayerClientFields \subseteq DOMAIN c) THEN Err("missing field")
    ELSE IF ~IsOk(DeI32(c["x"])) THEN DeI32(c["x"])
    ELSE IF ~IsOk(DeI32(c["y"])) THEN DeI32(c["y"])
    ELSE IF ~IsOk(DeU16(c["w"])) THEN DeU16(c["w"])
    ELSE IF ~IsOk(DeU16(c["h"])) THEN DeU16(c["h"])
    ELSE Ok([address |-> c["address"],
             x |-> DeI32(c["x"]).val,
             y |-> DeI32(c["y"]).val,
             w |-> DeU16(c["w"]).val,
             h |-> DeU16(c["h"]).val,
             namespace |-> c["namespace"]])

\* Vec<LayerClient> with each element put in front of those read before it
RECURSIVE DeLayerClientsPrepending(_)
DeLayerClientsPrepending(a) ==
    IF a = << >> THEN Ok(<< >>)
    ELSE IF ~IsOk(DeLayerClient(Head(a))) THEN DeLayerClient(Head(a))
    ELSE IF ~IsOk(DeLayerClientsPrepending(Tail(a))) THEN DeLayerClientsPrepending(Tail(a))
    ELSE Ok(DeLayerClientsPrepending(Tail(a)).val \o <<DeLayerClient(Head(a)).val>>)

\* Vec<LayerClient>: the elements of the array are read one after the other
\* and pushed onto the vector; the first that fails ends the read
RECURSIVE DeLayerClientsFrom(_, _)
DeLayerClientsFrom(a, read) ==
    IF a = << >> THEN Ok(read)
    ELSE IF ~IsOk(DeLayerClient(Head(a))) THEN DeLayerClient(Head(a))
    ELSE DeLayerClientsFrom(Tail(a), Append(read, DeLayerClient(Head(a)).val))

DeLayerClients(a) == DeLayerClientsFrom(a, << >>)

\* HashMap<String, Vec<LayerClient>>: one entry per key of the object
DeLevels(m) ==
    IF \E l \in DOMAIN m : ~IsOk(DeLayerClients(m[l])) THEN Err("invalid level")
    ELSE Ok([l \in DOMAIN m |-> DeLayerClients(m[l]).val])

\* #[derive(Deserialize)] for LayerDisplay
DeLayerDisplay(d) ==
    IF ~("levels" \in DOMAIN d) THEN Err("missing field")
    ELSE IF ~IsOk(DeLevels(d["levels"])) THEN DeLevels(d["levels"])
    ELSE Ok([levels |-> DeLevels(d["levels"]).val])

\* Layers = HashMap<String, LayerDisplay>
DeLayers(m) ==
    IF \E d \in DOMAIN m : ~IsOk(DeLayerDisplay(m[d])) THEN Err("invalid display")
    ELSE Ok([d \in DOMAIN m |-> DeLayerDisplay(m[d]).val])

-----------------------------------------------------------------------------
(* OptionRaw, OptionValue, Keyword *)

OptionRawFields == {"option", "int", "float", "str"}

\* #[derive(Deserialize)] for OptionRaw: all four fields are required
DeOptionRaw(w) ==
    IF ~(OptionRawFields \subseteq DOMAIN w) THEN Err("missing field")
    ELSE Ok([option |-> w["option"],
             int |-> DeI64(w["int"]).val,
             float |-> DeF64(w["float"]).val,
             str |-> w["str"]])

\* the variants of OptionValue
OptionInt(v) == [tag |-> "Int", v |-> v]
OptionFloat(v) == [tag |-> "Float", v |-> v]
OptionString(v) == [tag |-> "String", v |-> v]

OptionKinds == {"Int", "Float", "String"}

\* KeywordFrom carrying the int field under the Float variant
KeywordFromIntAsFloat(raw, kind) ==
    Ok([option |-> raw.option,
        value |-> CASE kind = "Int" -> OptionInt(raw.int)
                    [] kind = "Float" -> OptionFloat(raw.int)
                    [] kind = "String" -> OptionString(raw.str)])

\* Keyword::from(OptionRaw): the field of the option's kind becomes the value
KeywordFrom(raw, kind) ==
    Ok([option |-> raw.option,
        value |-> CASE kind = "Int" -> OptionInt(raw.int)
                    [] kind = "Float" -> OptionFloat(raw.float)
                    [] kind = "String" -> OptionString(raw.str)])

-----------------------------------------------------------------------------
(* Wire payloads the environment can send *)

Drop(obj, k) == [f \in DOMAIN obj \ {k} |-> obj[f]]

WorkspaceNames == {"1", "special"}
MonitorNames == {"DP-1", "HDMI-A-1"}
WindowCounts == {0, 3, U8Max, U8Max + 1}

FullWorkspaceWire ==
    { [id |-> i, name |-> n, monitor |-> m, windows |-> c, hasfullscreen |-> f] :
        i \in WireInts, n \in WorkspaceNames, m \in MonitorNames,
        c \in WindowCounts, f \in BOOLEAN }

MonitorWidths == {0 - 1, 0, 1, 1920, U16Max, U16Max + 1}
MonitorHeights == {0, 1080, U16Max + 1}
MonitorTransforms == {0, 3, 8}
MonitorWorkspaceIds == {SpecialId, 1, 0 - 5}
MonitorXs == {0, 0 - 1920, I32Max}
MonitorReserved == {<<0, 0, 0, 0>>, <<0, 30, 0, 0>>, <<0, 30, 0>>, <<0, U8Max + 1, 0, 0>>}

FullMonitorWire ==
    { [id |-> 0, name |-> "DP-1", width |-> wd, height |-> ht, refreshRate |-> 60,
       x |-> px, y |-> 0, activeWorkspace |-> [id |-> ws, name |-> "1"],
       reserved |-> rs, scale |-> 1, transform |-> tr, focused |-> TRUE] :
        wd \in MonitorWidths, ht \in MonitorHeights, px \in MonitorXs,
        ws \in MonitorWorkspaceIds, rs \in MonitorReserved, tr \in MonitorTransforms }

\* A record of candidate values, with the keys marked absent left out.
Absent == [t |-> "absent"]
Present(r) == [k \in {f \in DOMAIN r : r[f] # Absent} |-> r[k]]

TabletAddresses == {Absent, JStr("0x55d0"), JInt(21)}
TabletTypesOnWire == {Absent, JNull, JStr("tabletPad"), JStr("tabletTool"), JStr("tabletFoo"), JStr("TabletPad")}
TabletBelongsToOnWire ==
    {Absent, JNull,
     JObj([Address |-> JStr("0x55d0")]),
     JObj([TabletPad |-> JObj([name |-> JStr("pad"), address |-> JStr("0x55d0")])]),
     JObj([TabletPad |-> JObj([name |-> JStr("pad")])]),
     JStr("0x55d0")}
TabletNamesOnWire == {Absent, JNull, JStr("wacom"), JInt(7)}

TabletWire ==
    { Present([address |-> a, type |-> ty, belongsTo |-> b, name |-> n]) :
        a \in TabletAddresses, ty \in TabletTypesOnWire,
        b \in TabletBelongsToOnWire, n \in TabletNamesOnWire }

\* at most MaxLayerClients layer surfaces are reported for one level
MaxLayerClients == 3

LayerClientWire(a, wd, ns) ==
    [address |-> a, x |-> 0, y |-> 0, w |-> wd, h |-> 30, namespace |-> ns]

LayerClientsOnWire ==
    { LayerClientWire("0xa", 1920, "waybar"),
      LayerClientWire("0xb", 400, "notifications"),
      LayerClientWire("0xc", U16Max + 1, "rofi") }

SeqsUpTo(S, n) == UNION { [1..k -> S] : k \in 0..n }

LayersWire ==
    { IF second
      THEN [d \in {"DP-1", "HDMI-A-1"} |->
              IF d = "DP-1" THEN [levels |-> [overlay |-> o, top |-> t]]
              ELSE [levels |-> [top |-> o]]]
      ELSE [d \in {"DP-1"} |-> [levels |-> [overlay |-> o, top |-> t]]] :
        o \in SeqsUpTo(LayerClientsOnWire, MaxLayerClients),
        t \in SeqsUpTo(LayerClientsOnWire, MaxLayerClients),
        second \in BOOLEAN }

Restrict(obj, K) == [f \in DOMAIN obj \cap K |-> obj[f]]

ClientPositions == {<<0, 0>>, <<0 - 10, 20>>, <<0, I16Max + 1>>}
ClientSizes == {<<800, 600>>, <<0, 0>>, <<800>>}
ClientWorkspaceIds == {SpecialId, 2, 0 - 5}
ClientMonitors == {0, U8Max + 1}
ClientPids == {1234, 0 - 1}

FullClientWire ==
    { [address |-> "0x55d0", at |-> p, size |-> sz,
       workspace |-> [id |-> ws, name |-> "2"], floating |-> fl, monitor |-> mon,
       class |-> "kitty", title |-> "zsh", pid |-> pd, xwayland |-> FALSE] :
        p \in ClientPositions, sz \in ClientSizes, ws \in ClientWorkspaceIds,
        fl \in BOOLEAN, mon \in ClientMonitors, pd \in ClientPids }

\* a valid client record cut down to any subset of its keys, none included
PartialClientWire ==
    { Restrict([address |-> "0x55d0", at |-> <<0, 0>>, size |-> <<800, 600>>,
                workspace |-> [id |-> 2, name |-> "2"], floating |-> FALSE,
                monitor |-> 0, class |-> "kitty", title |-> "zsh", pid |-> 1234,
                xwayland |-> FALSE], K) : K \in SUBSET ClientFields }

OptionNames == {"general:border_size", "input:kb_layout"}
OptionInts == {0 - 1, 0, 2}
OptionFloats == {1, 5}
OptionStrs == {"", "[[EMPTY]]", "us"}

FullOptionWire ==
    { [option |-> o, int |-> i, float |-> f, str |-> st] :
        o \in OptionNames, i \in OptionInts, f \in OptionFloats, st \in OptionStrs }

-----------------------------------------------------------------------------
(* Operations *)

\* Nothing has been requested yet: the decoders hold no state of their own.
Idle == op = "idle"

Init ==
    /\ op = "idle"
    /\ wire = << >>
    /\ input = << >>
    /\ output = Ok(<< >>)

\* serde_json reads a workspace record into the wire mirror type
DeserializeWorkspaceRaw ==
    /\ Idle
    /\ \E w \in FullWorkspaceWire :
        /\ op' = "WorkspaceRaw::deserialize"
        /\ wire' = w
        /\ input' = w
        /\ output' = DeWorkspaceRaw(w)

\* the same with one required key left out of the record
DeserializeWorkspaceRawPartial ==
    /\ Idle
    /\ \E w \in FullWorkspaceWire, k \in WorkspaceRawFields :
        /\ w.name = "1" /\ w.monitor = "DP-1" /\ w.windows = 0
        /\ op' = "WorkspaceRaw::deserialize"
        /\ wire' = Drop(w, k)
        /\ input' = Drop(w, k)
        /\ output' = DeWorkspaceRaw(Drop(w, k))

\* the wire mirror value is converted to the domain type
ConvertWorkspace ==
    /\ op = "WorkspaceRaw::deserialize"
    /\ IsOk(output)
    /\ op' = "Workspace::from"
    /\ input' = output.val
    /\ output' = WorkspaceFrom(output.val)
    /\ UNCHANGED wire

\* serde_json reads a transform code
DeserializeTransforms ==
    /\ Idle
    /\ \E n \in WireInts :
        /\ op' = "Transforms::deserialize"
        /\ wire' = n
        /\ input' = n
        /\ output' = DeTransforms(n)

\* a decoded transform is written back as its numeric code
SerializeTransforms ==
    /\ op = "Transforms::deserialize"
    /\ IsOk(output)
    /\ op' = "Transforms::serialize"
    /\ input' = output.val
    /\ output' = Ok(SerTransforms(output.val))
    /\ UNCHANGED wire

\* serde_json reads a monitor record
DeserializeMonitor ==
    /\ Idle
    /\ \E w \in FullMonitorWire :
        /\ op' = "Monitor::deserialize"
        /\ wire' = w
        /\ input' = w
        /\ output' = DeMonitor(w)

\* the same with one required key left out of the record
DeserializeMonitorPartial ==
    /\ Idle
    /\ \E w \in FullMonitorWire, k \in MonitorFields :
        /\ w.x = 0 /\ w.reserved = <<0, 0, 0, 0>> /\ w.transform = 0
        /\ w.activeWorkspace.id = 1
        /\ op' = "Monitor::deserialize"
        /\ wire' = Drop(w, k)
        /\ input' = Drop(w, k)
        /\ output' = DeMonitor(Drop(w, k))

\* serde_json reads a tablet record
DeserializeTablet ==
    /\ Idle
    /\ \E w \in TabletWire :
        /\ op' = "Tablet::deserialize"
        /\ wire' = w
        /\ input' = w
        /\ output' = DeTablet(w)

\* serde_json reads the layers of every display
DeserializeLayers ==
    /\ Idle
    /\ \E w \in LayersWire :
        /\ op' = "Layers::deserialize"
        /\ wire' = w
        /\ input' = w
        /\ output' = DeLayers(w)

\* serde_json reads the active window from a populated object
DeserializeActiveWindow ==
    /\ Idle
    /\ \E w \in FullClientWire :
        /\ op' = "ActiveWindow::deserialize"
        /\ wire' = w
        /\ input' = w
        /\ output' = DeActiveWindow(w)

\* the same from an object that lacks some keys, or all of them
DeserializeActiveWindowPartial ==
    /\ Idle
    /\ \E w \in PartialClientWire :
        /\ op' = "ActiveWindow::deserialize"
        /\ wire' = w
        /\ input' = w
        /\ output' = DeActiveWindow(w)

\* serde_json reads an option record into the wire mirror type
DeserializeOptionRaw ==
    /\ Idle
    /\ \E w \in FullOptionWire :
        /\ op' = "OptionRaw::deserialize"
        /\ wire' = w
        /\ input' = w
        /\ output' = DeOptionRaw(w)

\* the same with one required key left out of the record
DeserializeOptionRawPartial ==
    /\ Idle
    /\ \E w \in FullOptionWire, k \in OptionRawFields :
        /\ op' = "OptionRaw::deserialize"
        /\ wire' = Drop(w, k)
        /\ input' = Drop(w, k)
        /\ output' = DeOptionRaw(Drop(w, k))

\* the wire mirror value is converted to a Keyword of the option's kind
ConvertKeyword ==
    /\ op = "OptionRaw::deserialize"
    /\ IsOk(output)
    /\ \E kind \in OptionKinds :
        /\ op' = "Keyword::from"
        /\ input' = output.val
        /\ output' = KeywordFrom(output.val, kind)
    /\ UNCHANGED wire

\* The result was handed to the caller (or the panic unwound); the next
\* command of the catalog can be decoded.  No state survives a decode.
NextCommand ==
    /\ ~Idle
    /\ op' = "idle"
    /\ wire' = << >>
    /\ input' = << >>
    /\ output' = Ok(<< >>)

Next ==
    \/ DeserializeWorkspaceRaw
    \/ DeserializeWorkspaceRawPartial
    \/ ConvertWorkspace
    \/ DeserializeTransforms
    \/ SerializeTransforms
    \/ DeserializeMonitor
    \/ DeserializeMonitorPartial
    \/ DeserializeTablet
    \/ DeserializeLayers
    \/ DeserializeActiveWindow
    \/ DeserializeActiveWindowPartial
    \/ DeserializeOptionRaw
    \/ DeserializeOptionRawPartial
    \/ ConvertKeyword
    \/ NextCommand

Spec == Init /\ [][Next]_vars

-----------------------------------------------------------------------------
(* Properties of the workspace conversion *)

\* C1: Workspace::from yields id Special exactly for raw.id = -99, yields
\* Regular(raw.id) for every raw.id in 0..127, and never yields a Regular
\* number different from raw.id.
C1_WorkspaceIdMapping ==
    op = "Workspace::from" =>
        /\ (IsOk(output) /\ output.val.id = Special) <=> (input.id = -99)
        /\ (input.id >= 0 /\ input.id <= 127) =>
               (IsOk(output) /\ output.val.id = Regular(input.id))
        /\ (IsOk(output) /\ output.val.id.tag = "Regular") =>
               output.val.id.n = input.id

C1_Witness ==
    /\ op = "Workspace::from"
    /\ input.id = -99
    /\ IsOk(output)
    /\ output.val.id = Special

\* C2: a negative raw.id other than -99 ends in the decode failure
\* UnrepresentableSentinel, returned to the caller as a value.
C2_NegativeIdReturnsError ==
    (op = "Workspace::from" /\ input.id < 0 /\ input.id # -99) =>
        (IsErr(output) /\ output.err = "UnrepresentableSentinel")

\* A workspace decode has run to its end: the record did not deserialize, or
\* the conversion has run.
WorkspaceDecodeDone ==
    \/ op = "Workspace::from"
    \/ op = "WorkspaceRaw::deserialize" /\ ~IsOk(output)

\* The record on the wire is well formed apart from its id.
WorkspaceWireOkButId ==
    /\ WorkspaceRawFields \subseteq DOMAIN wire
    /\ wire["windows"] >= 0 /\ wire["windows"] <= 255

\* C3 as stated: a non-negative wire id n decodes to Regular(n) when
\* n <= 255 and is a decode failure when n > 255.
C3_RegularUpTo255 ==
    (WorkspaceDecodeDone /\ WorkspaceWireOkButId /\ wire["id"] >= 0) =>
        IF wire["id"] <= 255
        THEN IsOk(output) /\ output.val.id = Regular(wire["id"])
        ELSE IsErr(output)

\* C3 as amended: a non-negative wire id n decodes to Regular(n) when
\* n <= 127 and is a decode failure, returned as a value, when n > 127; the
\* id is never truncated or wrapped into another Regular number.
C3_RegularUpTo127 ==
    (WorkspaceDecodeDone /\ WorkspaceWireOkButId /\ wire["id"] >= 0) =>
        IF wire["id"] <= 127
        THEN IsOk(output) /\ output.val.id = Regular(wire["id"])
        ELSE IsErr(output)

C3_Witness ==
    /\ op = "WorkspaceRaw::deserialize"
    /\ WorkspaceWireOkButId
    /\ wire["id"] = 200
    /\ IsErr(output)

\* C10: when Workspace::from produces a Workspace, name, monitor, windows and
\* fullscreen are those of the raw record (fullscreen being what the wire
\* carried as hasfullscreen).
C10_FieldsCopied ==
    (op = "Workspace::from" /\ IsOk(output)) =>
        /\ output.val.name = input.name
        /\ output.val.monitor = input.monitor
        /\ output.val.windows = input.windows
        /\ output.val.fullscreen = input.fullscreen
        /\ output.val.fullscreen = wire["hasfullscreen"]

C10_Witness ==
    /\ op = "Workspace::from"
    /\ IsOk(output)
    /\ input.name = "special" /\ input.monitor = "HDMI-A-1"
    /\ input.windows = 3 /\ input.fullscreen = TRUE
    /\ output.val.name = "special" /\ output.val.fullscreen = TRUE

-----------------------------------------------------------------------------
(* Properties of the transform codes *)

TransformNames ==
    <<"Normal", "Normal90", "Normal180", "Normal270",
      "Flipped", "Flipped90", "Flipped180", "Flipped270">>

\* C4: a transform code decodes exactly when it is in 0..7, code k to the
\* k-th of Normal, Normal90, Normal180, Normal270, Flipped, Flipped90,
\* Flipped180, Flipped270; every other integer is a decode failure; and
\* encoding a decoded transform gives back the code it was decoded from.
C4_TransformCodes ==
    /\ op = "Transforms::deserialize" =>
           IF wire >= 0 /\ wire <= 7
           THEN IsOk(output) /\ output.val = TransformNames[wire + 1]
           ELSE IsErr(output)
    /\ op = "Transforms::serialize" => output = Ok(wire)

C4_Witness ==
    /\ op = "Transforms::serialize"
    /\ input = "Flipped270"
    /\ wire = 7
    /\ output = Ok(7)

-----------------------------------------------------------------------------
(* Properties of monitor decoding *)

\* The monitor record on the wire is valid apart from its width and height
\* (its x and y are 32-bit integers in every payload considered).
MonitorWireOkButSize ==
    /\ MonitorFields \subseteq DOMAIN wire
    /\ wire["id"] >= 0 /\ wire["id"] <= 255
    /\ wire["activeWorkspace"].id = -99
           \/ (wire["activeWorkspace"].id >= 0 /\ wire["activeWorkspace"].id <= 255)
    /\ Len(wire["reserved"]) = 4
    /\ \A i \in 1..4 : wire["reserved"][i] >= 0 /\ wire["reserved"][i] <= 255
    /\ wire["transform"] >= 0 /\ wire["transform"] <= 7

\* C9 as stated: every Monitor that decoding constructs has width > 0 and
\* height > 0, and a payload with width 0 or height 0 is a decode failure.
C9_MonitorSizePositive ==
    op = "Monitor::deserialize" =>
        /\ IsOk(output) => (output.val.width > 0 /\ output.val.height > 0)
        /\ ({"width", "height"} \subseteq DOMAIN wire
              /\ (wire["width"] = 0 \/ wire["height"] = 0)) => IsErr(output)

\* C9 as amended: every Monitor that decoding constructs has the width and
\* height of its payload, each within 0..65535; a width or height outside
\* that range is a decode failure, while a payload with width 0 or height 0
\* that is valid otherwise does yield a Monitor.
C9_MonitorSizeUnsigned16 ==
    op = "Monitor::deserialize" =>
        /\ IsOk(output) =>
               /\ output.val.width = wire["width"]
               /\ output.val.height = wire["height"]
               /\ output.val.width >= 0 /\ output.val.width <= 65535
               /\ output.val.height >= 0 /\ output.val.height <= 65535
        /\ ({"width", "height"} \subseteq DOMAIN wire
              /\ (wire["width"] < 0 \/ wire["width"] > 65535
                    \/ wire["height"] < 0 \/ wire["height"] > 65535)) => IsErr(output)
        /\ (MonitorWireOkButSize
              /\ wire["width"] >= 0 /\ wire["width"] <= 65535
              /\ wire["height"] >= 0 /\ wire["height"] <= 65535) => IsOk(output)

C9_Witness ==
    /\ op = "Monitor::deserialize"
    /\ MonitorWireOkButSize
    /\ wire["width"] = 0 /\ wire["height"] = 0
    /\ IsOk(output)
    /\ output.val.width = 0 /\ output.val.height = 0

-----------------------------------------------------------------------------
(* Properties of tablet decoding *)

\* The optional keys the tablet record carries all carry a valid value.
TabletWirePresentKeysValid ==
    /\ "type" \in DOMAIN wire =>
           wire["type"] \in {JNull, JStr("tabletPad"), JStr("tabletTool")}
    /\ "belongsTo" \in DOMAIN wire =>
           wire["belongsTo"] \in
               {JNull, JObj([Address |-> JStr("0x55d0")]),
                JObj([TabletPad |-> JObj([name |-> JStr("pad"), address |-> JStr("0x55d0")])])}
    /\ "name" \in DOMAIN wire => wire["name"] \in {JNull, JStr("wacom")}

\* C6: a tablet record with an address decodes although type, belongsTo or
\* name are absent, each absent field being None; a type string other than
\* "tabletPad" and "tabletTool" is a decode failure.
C6_TabletOptionalFields ==
    (op = "Tablet::deserialize" /\ "address" \in DOMAIN wire /\ wire["address"].t = "str") =>
        /\ TabletWirePresentKeysValid => IsOk(output)
        /\ IsOk(output) =>
               /\ ~("type" \in DOMAIN wire) => output.val.tablet_type = None
               /\ ~("belongsTo" \in DOMAIN wire) => output.val.belongs_to = None
               /\ ~("name" \in DOMAIN wire) => output.val.name = None
        /\ ("type" \in DOMAIN wire /\ wire["type"].t = "str"
              /\ wire["type"].s \notin {"tabletPad", "tabletTool"}) => IsErr(output)

C6_Witness ==
    /\ op = "Tablet::deserialize"
    /\ DOMAIN wire = {"address"}
    /\ IsOk(output)
    /\ output.val.tablet_type = None
    /\ output.val.belongs_to = None
    /\ output.val.name = None

-----------------------------------------------------------------------------
(* Properties of layer decoding *)

\* Every layer client of the payload has a width and height that fit u16.
LayersWireValid ==
    \A d \in DOMAIN wire : \A l \in DOMAIN wire[d].levels :
        \A i \in 1..Len(wire[d].levels[l]) :
            /\ wire[d].levels[l][i].w >= 0 /\ wire[d].levels[l][i].w <= 65535
            /\ wire[d].levels[l][i].h >= 0 /\ wire[d].levels[l][i].h <= 65535

\* C7: the decoded sequence of every level of every display has the length
\* of the reported one and the same layer client at every position.
C7_LayerOrderPreserved ==
    op = "Layers::deserialize" =>
        /\ LayersWireValid => IsOk(output)
        /\ IsOk(output) =>
               /\ DOMAIN output.val = DOMAIN wire
               /\ \A d \in DOMAIN wire :
                      /\ DOMAIN output.val[d].levels = DOMAIN wire[d].levels
                      /\ \A l \in DOMAIN wire[d].levels :
                             /\ Len(output.val[d].levels[l]) = Len(wire[d].levels[l])
                             /\ \A i \in 1..Len(wire[d].levels[l]) :
                                    output.val[d].levels[l][i] = wire[d].levels[l][i]

C7_Witness ==
    /\ op = "Layers::deserialize"
    /\ IsOk(output)
    /\ Len(wire["DP-1"].levels["overlay"]) = 2
    /\ wire["DP-1"].levels["overlay"][1].address = "0xa"
    /\ wire["DP-1"].levels["overlay"][2].address = "0xb"
    /\ output.val["DP-1"].levels["overlay"][1].address = "0xa"
    /\ output.val["DP-1"].levels["overlay"][2].address = "0xb"
    /\ Len(output.val["DP-1"].levels["top"]) = 1

-----------------------------------------------------------------------------
(* Properties of active window decoding *)

\* The payload is a valid client record.
ClientWireValid ==
    /\ ClientFields \subseteq DOMAIN wire
    /\ Len(wire["at"]) = 2
    /\ \A i \in 1..2 : wire["at"][i] >= -32768 /\ wire["at"][i] <= 32767
    /\ Len(wire["size"]) = 2
    /\ \A i \in 1..2 : wire["size"][i] >= 0 /\ wire["size"][i] <= 65535
    /\ wire["workspace"].id = -99
           \/ (wire["workspace"].id >= 0 /\ wire["workspace"].id <= 255)
    /\ wire["monitor"] >= 0 /\ wire["monitor"] <= 255
    /\ wire["pid"] >= 0

-----------------------------------------------------------------------------
(* Properties of the keyword conversion *)

\* C8: the Keyword made from an OptionRaw has the option name of the raw
\* record and, as value, one of Int(raw.int), Float(raw.float) and
\* String(raw.str); the conversion yields a Keyword for every OptionRaw.
C8_KeywordCarriesOneRawField ==
    op = "Keyword::from" =>
        /\ IsOk(output)
        /\ output.val.option = input.option
        /\ \/ output.val.value.tag = "Int" /\ output.val.value.v = input.int
           \/ output.val.value.tag = "Float" /\ output.val.value.v = input.float
           \/ output.val.value.tag = "String" /\ output.val.value.v = input.str

C8_Witness ==
    /\ op = "Keyword::from"
    /\ input.option = "input:kb_layout"
    /\ input.int = -1 /\ input.float = 5 /\ input.str = "us"
    /\ IsOk(output)
    /\ output.val.option = "input:kb_layout"
    /\ output.val.value.tag = "Float"
    /\ output.val.value.v = 5

====
